---------------------------- MODULE Spec2Model ----------------------------
(***************************************************************************)
(* Model of the ocean_buyer skill's behaviours                             *)
(* (packages/eightballer/skills/ocean_buyer/behaviours.py):                *)
(*   - GenericTransactionBehaviour: the ledger dispatch loop, its timeout  *)
(*     and its completion handling (finish_processing, failed_processing); *)
(*   - GenericSearchBehaviour: the search loop gated on the dispatch       *)
(*     loop's queue length;                                                *)
(*   - OceanC2DBehaviour: the compute-job submission guarded by the        *)
(*     strategy's in-flight flag.                                          *)
(* A ledger dialogue is identified by its dialogue label, a fresh positive *)
(* integer per ledger_api_dialogues.create; a FipaDialogue (a transaction  *)
(* request) is identified by the order in which it was enqueued.           *)
(***************************************************************************)
EXTENDS Integers, Sequences, FiniteSets, TLC

\* Bounds of the model.
MaxRequests == 3
MaxDialogues == 4
MaxBudget == 4
MaxJobs == 6

\* DEFAULT_TX_INTERVAL: the tick interval of the transaction behaviour.
DEFAULT_TX_INTERVAL == 2

\* `self.processing is None`: the empty dispatch slot.
NONE == 0

Requests == 1..MaxRequests
Labels == 1..MaxDialogues
\* A ledger dialogue that the transaction behaviour never created (for
\* example the GET_BALANCE dialogue of the search behaviour's setup).
ForeignLabel == MaxDialogues + 1

tick_interval == DEFAULT_TX_INTERVAL

\* The max_processing values a configuration may give.
Budgets == {0, MaxBudget}

VARIABLES
    waiting,          \* self.waiting: the FipaDialogues awaiting submission
    processing,       \* self.processing: the label of the dialogue in the slot, or NONE
    processing_time,  \* self.processing_time
    timedout,         \* self.timedout: labels of the dialogues timed out locally
    max_processing,   \* self.max_processing (configuration)
    dialogues,        \* ledger dialogues created so far: dialogues[l] is the
                      \* associated_fipa_dialogue of the dialogue labelled l
    enqueued,         \* number of FipaDialogues the negotiation has enqueued
    is_ledger_tx,     \* strategy.is_ledger_tx (configuration)
    is_searching,     \* strategy.is_searching
    setup_done,       \* whether the behaviours' setup has run
    completed,        \* labels for which the ledger has delivered a completion
    fate,             \* fate[l]: how dialogue l left the slot ("inflight" while it has not)
    demoted,          \* demoted[l]: the queue found by the timeout of dialogue l
    raised,           \* whether the last handler raised ValueError
    sent,             \* the messages the last handler put in the outbox
    is_in_flight,     \* strategy.is_in_flight
    is_c2d_active,    \* strategy.is_c2d_active
    is_processing,    \* strategy.is_processing
    purchased_data,   \* strategy.purchased_data (NONE while nothing is purchased)
    has_completed_c2d_job,  \* strategy.has_completed_c2d_job
    job_requests,     \* number of C2D_JOB envelopes put in the outbox so far
    job_replies       \* number of replies to them handled so far

\* The state of the search and transaction behaviours, with its observers.
buyervars == <<waiting, processing, processing_time, timedout, max_processing,
               dialogues, enqueued, is_ledger_tx, is_searching, setup_done,
               completed, fate, demoted, raised>>

\* The state that OceanC2DBehaviour reads and writes, with its observers.
c2dvars == <<is_in_flight, is_c2d_active, is_processing, purchased_data,
             has_completed_c2d_job, job_requests, job_replies>>

vars == <<waiting, processing, processing_time, timedout, max_processing,
          dialogues, enqueued, is_ledger_tx, is_searching, setup_done,
          completed, fate, demoted, raised, sent, c2dvars>>

-----------------------------------------------------------------------------
(* The transaction behaviour as a record, and its methods as operators.    *)

Self ==
    [waiting |-> waiting, processing |-> processing,
     processing_time |-> processing_time, timedout |-> timedout,
     dialogues |-> dialogues, outbox |-> <<>>, raised |-> FALSE]

\* ledger_api_dialogue.associated_fipa_dialogue: set by _start_processing for
\* the dialogues the behaviour created, unset (NONE) for any other dialogue.
AssociatedFipaDialogue(s, d) ==
    IF d \in DOMAIN s.dialogues THEN s.dialogues[d] ELSE NONE

\* Mutant: the timeout does not record the label in self.timedout.
TimeoutProcessingForgets(s) ==
    IF s.processing = NONE
    THEN s
    ELSE [s EXCEPT !.waiting = Append(@, AssociatedFipaDialogue(s, s.processing)),
                   !.processing_time = 0,
                   !.processing = NONE]

\* Mutant: the timeout puts the request back at the head of the queue.
TimeoutProcessingAtHead(s) ==
    IF s.processing = NONE
    THEN s
    ELSE [s EXCEPT !.timedout = @ \cup {s.processing},
                   !.waiting = <<AssociatedFipaDialogue(s, s.processing)>> \o @,
                   !.processing_time = 0,
                   !.processing = NONE]

\* Mutant: the timeout does not put the request back in the queue.
TimeoutProcessingDrops(s) ==
    IF s.processing = NONE
    THEN s
    ELSE [s EXCEPT !.timedout = @ \cup {s.processing},
                   !.processing_time = 0,
                   !.processing = NONE]

\* Mutant: the timeout also sends a cancellation to the ledger.
TimeoutProcessingCancels(s) ==
    IF s.processing = NONE
    THEN s
    ELSE [s EXCEPT !.timedout = @ \cup {s.processing},
                   !.waiting = Append(@, AssociatedFipaDialogue(s, s.processing)),
                   !.processing_time = 0,
                   !.processing = NONE,
                   !.outbox = Append(@, "CANCEL")]

\* GenericTransactionBehaviour._timeout_processing
TimeoutProcessing(s) ==
    IF s.processing = NONE
    THEN s
    ELSE [s EXCEPT !.timedout = @ \cup {s.processing},
                   !.waiting = Append(@, AssociatedFipaDialogue(s, s.processing)),
                   !.processing_time = 0,
                   !.processing = NONE]

\* Mutant: the dispatch takes the newest request instead of the oldest.
StartProcessingLifo(s) ==
    LET fipa_dialogue == s.waiting[Len(s.waiting)]
        label == Len(s.dialogues) + 1
    IN  [s EXCEPT !.waiting = SubSeq(@, 1, Len(@) - 1),
                  !.dialogues = Append(@, fipa_dialogue),
                  !.processing_time = 0,
                  !.processing = label,
                  !.outbox = Append(@, "GET_RAW_TRANSACTION")]

\* GenericTransactionBehaviour._start_processing
StartProcessing(s) ==
    LET fipa_dialogue == Head(s.waiting)
        label == Len(s.dialogues) + 1
    IN  [s EXCEPT !.waiting = Tail(@),
                  !.dialogues = Append(@, fipa_dialogue),
                  !.processing_time = 0,
                  !.processing = label,
                  !.outbox = Append(@, "GET_RAW_TRANSACTION")]

\* Mutant: the waiting branch does not return, so a tick may dispatch over a
\* live slot.
TxActOverwrites(s) ==
    LET t == IF s.processing # NONE /\ s.processing_time <= max_processing
             THEN [s EXCEPT !.processing_time = @ + tick_interval]
             ELSE IF s.processing # NONE THEN TimeoutProcessing(s) ELSE s
    IN  IF Len(t.waiting) = 0 THEN t ELSE StartProcessing(t)

\* Mutant: the budget test is strict (<), so the timeout fires one tick early.
TxActStrictBudget(s) ==
    IF s.processing # NONE /\ s.processing_time < max_processing
    THEN [s EXCEPT !.processing_time = @ + tick_interval]
    ELSE LET t == IF s.processing # NONE THEN TimeoutProcessing(s) ELSE s
         IN  IF Len(t.waiting) = 0 THEN t ELSE StartProcessing(t)

\* Mutant: a waiting tick adds one time unit instead of the tick interval.
TxActUnitIncrement(s) ==
    IF s.processing # NONE /\ s.processing_time <= max_processing
    THEN [s EXCEPT !.processing_time = @ + 1]
    ELSE LET t == IF s.processing # NONE THEN TimeoutProcessing(s) ELSE s
         IN  IF Len(t.waiting) = 0 THEN t ELSE StartProcessing(t)

\* Mutant: a waiting tick returns without adding to the elapsed time, so the
\* budget is never exceeded.
TxActForgetsElapsed(s) ==
    IF s.processing # NONE /\ s.processing_time <= max_processing
    THEN s
    ELSE LET t == IF s.processing # NONE THEN TimeoutProcessing(s) ELSE s
         IN  IF Len(t.waiting) = 0 THEN t ELSE StartProcessing(t)

\* GenericTransactionBehaviour.act
TxAct(s) ==
    IF s.processing # NONE /\ s.processing_time <= max_processing
    THEN [s EXCEPT !.processing_time = @ + tick_interval]
    ELSE LET t == IF s.processing # NONE THEN TimeoutProcessing(s) ELSE s
         IN  IF Len(t.waiting) = 0 THEN t ELSE StartProcessing(t)

\* Mutant: a late completion of a timed-out dialogue also resets the slot.
FinishProcessingResets(s, d) ==
    IF s.processing = d
    THEN [s EXCEPT !.processing_time = 0, !.processing = NONE]
    ELSE IF d \notin s.timedout
         THEN [s EXCEPT !.raised = TRUE]
         ELSE [s EXCEPT !.timedout = @ \ {d},
                        !.processing_time = 0, !.processing = NONE]

\* Mutant: a completion that matches nothing is swallowed instead of raised.
FinishProcessingSwallows(s, d) ==
    IF s.processing = d
    THEN [s EXCEPT !.processing_time = 0, !.processing = NONE]
    ELSE [s EXCEPT !.timedout = @ \ {d}]

\* Mutant: a completion for the slot empties it without resetting the elapsed
\* time.
FinishProcessingKeepsTime(s, d) ==
    IF s.processing = d
    THEN [s EXCEPT !.processing = NONE]
    ELSE IF d \notin s.timedout
         THEN [s EXCEPT !.raised = TRUE]
         ELSE [s EXCEPT !.timedout = @ \ {d}]

\* Mutant: the membership test on self.timedout is inverted, so a late
\* completion of a timed-out dialogue is the one that raises.
FinishProcessingInvertedTest(s, d) ==
    IF s.processing = d
    THEN [s EXCEPT !.processing_time = 0, !.processing = NONE]
    ELSE IF d \in s.timedout
         THEN [s EXCEPT !.raised = TRUE]
         ELSE s

\* GenericTransactionBehaviour.finish_processing
FinishProcessing(s, d) ==
    IF s.processing = d
    THEN [s EXCEPT !.processing_time = 0, !.processing = NONE]
    ELSE IF d \notin s.timedout
         THEN [s EXCEPT !.raised = TRUE]
         ELSE [s EXCEPT !.timedout = @ \ {d}]

\* Mutant: a failed request is not put back in the queue.
FailedProcessingDrops(s, d) ==
    FinishProcessing(s, d)

\* Mutant: a failed request is put back at the head of the queue.
FailedProcessingAtHead(s, d) ==
    LET t == FinishProcessing(s, d)
    IN  IF t.raised
        THEN t
        ELSE [t EXCEPT !.waiting = <<AssociatedFipaDialogue(t, d)>> \o @]

\* GenericTransactionBehaviour.failed_processing
FailedProcessing(s, d) ==
    LET t == FinishProcessing(s, d)
    IN  IF t.raised
        THEN t
        ELSE [t EXCEPT !.waiting = Append(@, AssociatedFipaDialogue(t, d))]

\* Mutant: the queue test is inverted, so the search runs only with a backlog.
SearchActOutboxInverted(searching, remaining_transactions_count) ==
    IF ~searching THEN <<>>
    ELSE IF remaining_transactions_count = 0 THEN <<>>
    ELSE <<"SEARCH_SERVICES">>

\* Mutant: the search tick does not look at the transaction queue.
SearchActOutboxUngated(searching, remaining_transactions_count) ==
    IF ~searching THEN <<>> ELSE <<"SEARCH_SERVICES">>

\* GenericSearchBehaviour.act: the messages a search tick puts in the outbox.
SearchActOutbox(searching, remaining_transactions_count) ==
    IF ~searching THEN <<>>
    ELSE IF remaining_transactions_count > 0 THEN <<>>
    ELSE <<"SEARCH_SERVICES">>

-----------------------------------------------------------------------------
(* Observers of a handler's run from state s of the behaviour to state t.  *)

\* How each dialogue left the slot.
NextFate(t, op, d) ==
    [l \in 1..Len(t.dialogues) |->
        IF l > Len(dialogues) THEN "inflight"
        ELSE IF l = processing /\ t.processing # l
             THEN IF l \in t.timedout THEN "timedout"
                  ELSE IF d = l THEN op
                  ELSE fate[l]
             ELSE fate[l]]

\* Whether a completion has arrived for some dispatch of request r.
CompletionArrivedFor(r) ==
    \E l \in completed : l \in DOMAIN dialogues /\ dialogues[l] = r

\* The queue each timeout found, recorded when no completion for the
\* timed-out request had arrived before.
NextDemoted(t) ==
    [l \in 1..Len(t.dialogues) |->
        IF l > Len(dialogues) THEN <<>>
        ELSE IF l = processing /\ l \in t.timedout
                /\ ~CompletionArrivedFor(dialogues[l])
             THEN waiting
             ELSE demoted[l]]

\* The state of the transaction behaviour after a handler, with the observers.
Becomes(t, op, d) ==
    /\ waiting' = t.waiting
    /\ processing' = t.processing
    /\ processing_time' = t.processing_time
    /\ timedout' = t.timedout
    /\ dialogues' = t.dialogues
    /\ sent' = t.outbox
    /\ fate' = NextFate(t, op, d)
    /\ demoted' = NextDemoted(t)
    /\ raised' = t.raised

-----------------------------------------------------------------------------
Init ==
    /\ waiting = <<>>
    /\ processing = NONE
    /\ processing_time = 0
    /\ timedout = {}
    /\ max_processing \in Budgets
    /\ dialogues = <<>>
    /\ enqueued = 0
    /\ is_ledger_tx \in BOOLEAN
    /\ is_searching = FALSE
    /\ setup_done = FALSE
    /\ completed = {}
    /\ fate = <<>>
    /\ demoted = <<>>
    /\ raised = FALSE
    /\ sent = <<>>
    /\ is_in_flight = FALSE
    /\ is_c2d_active = FALSE
    /\ is_processing = FALSE
    /\ purchased_data = NONE
    /\ has_completed_c2d_job = FALSE
    /\ job_requests = 0
    /\ job_replies = 0

\* Mutant: setup enters the searching state whether or not a balance check is
\* needed first.
SearchSetupStartsSearching ==
    /\ ~setup_done
    /\ setup_done' = TRUE
    /\ sent' = IF is_ledger_tx THEN <<"GET_BALANCE">> ELSE <<>>
    /\ is_searching' = TRUE
    /\ raised' = FALSE
    /\ UNCHANGED <<waiting, processing, processing_time, timedout,
                   max_processing, dialogues, enqueued, is_ledger_tx,
                   completed, fate, demoted, c2dvars>>

\* GenericSearchBehaviour.setup (the transaction behaviour's setup is empty)
SearchSetup ==
    /\ ~setup_done
    /\ setup_done' = TRUE
    /\ IF is_ledger_tx
       THEN sent' = <<"GET_BALANCE">> /\ UNCHANGED is_searching
       ELSE sent' = <<>> /\ is_searching' = TRUE
    /\ raised' = FALSE
    /\ UNCHANGED <<waiting, processing, processing_time, timedout,
                   max_processing, dialogues, enqueued, is_ledger_tx,
                   completed, fate, demoted, c2dvars>>

\* Mutant: a search tick that skips its query also drops the oldest waiting
\* request.
SearchActDrainsQueue ==
    /\ setup_done
    /\ sent' = SearchActOutbox(is_searching, Len(waiting))
    /\ waiting' = IF is_searching /\ Len(waiting) > 0
                  THEN Tail(waiting)
                  ELSE waiting
    /\ raised' = FALSE
    /\ UNCHANGED <<processing, processing_time, timedout,
                   max_processing, dialogues, enqueued, is_ledger_tx,
                   is_searching, setup_done, completed, fate, demoted,
                   c2dvars>>

\* GenericSearchBehaviour.act
SearchAct ==
    /\ setup_done
    /\ sent' = SearchActOutbox(is_searching, Len(waiting))
    /\ raised' = FALSE
    /\ UNCHANGED <<waiting, processing, processing_time, timedout,
                   max_processing, dialogues, enqueued, is_ledger_tx,
                   is_searching, setup_done, completed, fate, demoted,
                   c2dvars>>

\* A handler of the skill sets strategy.is_searching (the balance reply
\* enables the search; a found seller suspends it).
SetSearching ==
    /\ setup_done
    /\ is_searching' = ~is_searching
    /\ sent' = <<>>
    /\ raised' = FALSE
    /\ UNCHANGED <<waiting, processing, processing_time, timedout,
                   max_processing, dialogues, enqueued, is_ledger_tx,
                   setup_done, completed, fate, demoted, c2dvars>>

\* The negotiation appends a new FipaDialogue to the transaction behaviour's queue.
Enqueue ==
    /\ setup_done
    /\ enqueued < MaxRequests
    /\ enqueued' = enqueued + 1
    /\ waiting' = Append(waiting, enqueued + 1)
    /\ sent' = <<>>
    /\ raised' = FALSE
    /\ UNCHANGED <<processing, processing_time, timedout, max_processing,
                   dialogues, is_ledger_tx, is_searching, setup_done,
                   completed, fate, demoted, c2dvars>>

\* A tick of the transaction behaviour.
Tick ==
    /\ setup_done
    /\ LET t == TxAct(Self)
       IN  /\ Len(t.dialogues) <= MaxDialogues
           /\ Becomes(t, "act", NONE)
    /\ UNCHANGED <<max_processing, enqueued, is_ledger_tx, is_searching,
                   setup_done, completed, c2dvars>>

\* The ledger handler reports the success of dialogue d.
Finish(d) ==
    /\ setup_done
    /\ Becomes(FinishProcessing(Self, d), "finished", d)
    /\ completed' = completed \cup ({d} \cap Labels)
    /\ UNCHANGED <<max_processing, enqueued, is_ledger_tx, is_searching,
                   setup_done, c2dvars>>

\* The ledger handler reports the failure of dialogue d.
Failed(d) ==
    /\ setup_done
    /\ Becomes(FailedProcessing(Self, d), "failed", d)
    /\ completed' = completed \cup ({d} \cap Labels)
    /\ UNCHANGED <<max_processing, enqueued, is_ledger_tx, is_searching,
                   setup_done, c2dvars>>

\* The ledger dialogues a completion may name: those created, and a foreign one.
Completable == (1..Len(dialogues)) \cup {ForeignLabel}

Next ==
    \/ SearchSetup
    \/ SearchAct
    \/ SetSearching
    \/ Enqueue
    \/ Tick
    \/ \E d \in Completable : Finish(d)
    \/ \E d \in Completable : Failed(d)

Spec == Init /\ [][Next]_vars

\* The transaction behaviour on its own, after the setup, kept being ticked:
\* a TickerBehaviour is scheduled again after every tick interval. Nothing is
\* required of the ledger or of the negotiation; the search behaviour, which
\* only reads the queue's length, is left out.
FairInit ==
    /\ waiting = <<>>
    /\ processing = NONE
    /\ processing_time = 0
    /\ timedout = {}
    /\ max_processing \in Budgets
    /\ dialogues = <<>>
    /\ enqueued = 0
    /\ is_ledger_tx = FALSE
    /\ is_searching = TRUE
    /\ setup_done = TRUE
    /\ completed = {}
    /\ fate = <<>>
    /\ demoted = <<>>
    /\ raised = FALSE
    /\ sent = <<>>
    /\ is_in_flight = FALSE
    /\ is_c2d_active = FALSE
    /\ is_processing = FALSE
    /\ purchased_data = NONE
    /\ has_completed_c2d_job = FALSE
    /\ job_requests = 0
    /\ job_replies = 0

FairNext ==
    \/ Enqueue
    \/ Tick
    \/ \E d \in Completable : Finish(d)
    \/ \E d \in Completable : Failed(d)

FairSpec == FairInit /\ [][FairNext]_vars /\ WF_vars(Tick)

\* The behaviours with a ledger that keeps its contract: exactly one
\* completion, a success or a failure, for each dialogue the transaction
\* behaviour created, and none for any other dialogue.
ContractNext ==
    \/ SearchSetup
    \/ SearchAct
    \/ SetSearching
    \/ Enqueue
    \/ Tick
    \/ \E d \in (1..Len(dialogues)) \ completed : Finish(d)
    \/ \E d \in (1..Len(dialogues)) \ completed : Failed(d)

ContractSpec == Init /\ [][ContractNext]_vars

-----------------------------------------------------------------------------
(* OceanC2DBehaviour, over the strategy's flags.                           *)

\* The strategy as OceanC2DBehaviour sees it, with the envelopes it puts.
Strategy ==
    [is_in_flight |-> is_in_flight, is_c2d_active |-> is_c2d_active,
     is_processing |-> is_processing, purchased_data |-> purchased_data,
     has_completed_c2d_job |-> has_completed_c2d_job, outbox |-> <<>>]

\* Mutant: the envelope is put without setting strategy.is_in_flight.
CreateEnvelopeNoFlag(st, performative) ==
    [st EXCEPT !.outbox = Append(@, performative)]

\* OceanC2DBehaviour.__create_envelope
CreateEnvelope(st, performative) ==
    [st EXCEPT !.outbox = Append(@, performative),
               !.is_in_flight = TRUE]

\* Mutant: act does not return while a request is in flight.
C2DActUnguarded(st) ==
    IF ~st.is_c2d_active
    THEN st
    ELSE LET a == IF st.purchased_data # NONE /\ ~st.has_completed_c2d_job
                  THEN CreateEnvelope(st, "C2D_JOB")
                  ELSE st
         IN  IF a.has_completed_c2d_job
             THEN [a EXCEPT !.is_c2d_active = FALSE, !.is_processing = FALSE]
             ELSE a

\* Mutant: on a completed job act releases is_processing but leaves the
\* compute-to-data mode on.
C2DActKeepsActive(st) ==
    IF st.is_in_flight \/ ~st.is_c2d_active
    THEN st
    ELSE LET a == IF st.purchased_data # NONE /\ ~st.has_completed_c2d_job
                  THEN CreateEnvelope(st, "C2D_JOB")
                  ELSE st
         IN  IF a.has_completed_c2d_job
             THEN [a EXCEPT !.is_processing = FALSE]
             ELSE a

\* OceanC2DBehaviour.act
C2DAct(st) ==
    IF st.is_in_flight \/ ~st.is_c2d_active
    THEN st
    ELSE LET a == IF st.purchased_data # NONE /\ ~st.has_completed_c2d_job
                  THEN CreateEnvelope(st, "C2D_JOB")
                  ELSE st
         IN  IF a.has_completed_c2d_job
             THEN [a EXCEPT !.is_c2d_active = FALSE, !.is_processing = FALSE]
             ELSE a

\* The strategy OceanC2DBehaviour starts from: nothing purchased, nothing in
\* flight; whether the compute-to-data mode is on is the skill's configuration.
C2DInit ==
    /\ waiting = <<>>
    /\ processing = NONE
    /\ processing_time = 0
    /\ timedout = {}
    /\ max_processing = MaxBudget
    /\ dialogues = <<>>
    /\ enqueued = 0
    /\ is_ledger_tx = FALSE
    /\ is_searching = FALSE
    /\ setup_done = TRUE
    /\ completed = {}
    /\ fate = <<>>
    /\ demoted = <<>>
    /\ raised = FALSE
    /\ sent = <<>>
    /\ is_in_flight = FALSE
    /\ is_c2d_active \in BOOLEAN
    /\ is_processing \in BOOLEAN
    /\ purchased_data = NONE
    /\ has_completed_c2d_job = FALSE
    /\ job_requests = 0
    /\ job_replies = 0

\* An invocation of OceanC2DBehaviour.act.
C2DTick ==
    LET st == C2DAct(Strategy)
    IN  /\ job_requests + Len(st.outbox) <= MaxJobs
        /\ is_in_flight' = st.is_in_flight
        /\ is_c2d_active' = st.is_c2d_active
        /\ is_processing' = st.is_processing
        /\ purchased_data' = st.purchased_data
        /\ has_completed_c2d_job' = st.has_completed_c2d_job
        /\ sent' = st.outbox
        /\ job_requests' = job_requests + Len(st.outbox)
        /\ UNCHANGED <<job_replies, buyervars>>

\* A handler of the skill records the purchased data.
Purchase ==
    /\ purchased_data = NONE
    /\ purchased_data' = 1
    /\ sent' = <<>>
    /\ UNCHANGED <<is_in_flight, is_c2d_active, is_processing,
                   has_completed_c2d_job, job_requests, job_replies,
                   buyervars>>

\* A handler of the skill switches the compute-to-data mode on.
ActivateC2D ==
    /\ ~is_c2d_active
    /\ is_c2d_active' = TRUE
    /\ is_processing' = TRUE
    /\ sent' = <<>>
    /\ UNCHANGED <<is_in_flight, purchased_data, has_completed_c2d_job,
                   job_requests, job_replies, buyervars>>

\* A handler of the skill switches the compute-to-data mode off.
DeactivateC2D ==
    /\ is_c2d_active
    /\ is_c2d_active' = FALSE
    /\ sent' = <<>>
    /\ UNCHANGED <<is_in_flight, is_processing, purchased_data,
                   has_completed_c2d_job, job_requests, job_replies,
                   buyervars>>

\* The handler of the reply to a job submission clears strategy.is_in_flight;
\* a successful reply records the completed job.
JobReply(success) ==
    /\ job_replies < job_requests
    /\ job_replies' = job_replies + 1
    /\ is_in_flight' = FALSE
    /\ has_completed_c2d_job' = (has_completed_c2d_job \/ success)
    /\ sent' = <<>>
    /\ UNCHANGED <<is_c2d_active, is_processing, purchased_data,
                   job_requests, buyervars>>

\* A handler of the skill starts over with a new data set: nothing purchased,
\* no job completed.
NewJob ==
    /\ has_completed_c2d_job
    /\ has_completed_c2d_job' = FALSE
    /\ purchased_data' = NONE
    /\ sent' = <<>>
    /\ UNCHANGED <<is_in_flight, is_c2d_active, is_processing,
                   job_requests, job_replies, buyervars>>

\* Another behaviour of the skill takes or releases strategy.is_processing.
SetProcessing ==
    /\ is_processing' = ~is_processing
    /\ sent' = <<>>
    /\ UNCHANGED <<is_in_flight, is_c2d_active, purchased_data,
                   has_completed_c2d_job, job_requests, job_replies,
                   buyervars>>

C2DNext ==
    \/ C2DTick
    \/ Purchase
    \/ ActivateC2D
    \/ DeactivateC2D
    \/ NewJob
    \/ SetProcessing
    \/ \E success \in BOOLEAN : JobReply(success)

C2DSpec == C2DInit /\ [][C2DNext]_vars

-----------------------------------------------------------------------------
(* Vocabulary of the properties.                                           *)

\* The ledger calls issued for which no completion has arrived yet.
Outstanding == (1..Len(dialogues)) \ completed

\* The request held by the slot (NONE when the slot is empty).
SlotRequest == IF processing = NONE THEN NONE ELSE dialogues[processing]

\* How many times request r occurs in the queue and the slot together.
Occurrences(r) ==
    Cardinality({i \in DOMAIN waiting : waiting[i] = r})
        + (IF SlotRequest = r THEN 1 ELSE 0)

\* The queue and the bookkeeping of the transaction behaviour.
txvars == <<waiting, processing, processing_time, timedout>>

-----------------------------------------------------------------------------
\* C1: single in-flight slot. A dialogue that was dispatched and has neither
\* been timed out nor been retired by its completion is the one in the slot:
\* at most one request is in flight, and no dispatch overwrites a live slot.
SingleInFlightSlot ==
    /\ \A l \in DOMAIN fate : fate[l] = "inflight" => processing = l
    /\ processing # NONE =>
          processing \in DOMAIN fate /\ fate[processing] = "inflight"
    /\ Cardinality({l \in DOMAIN fate : fate[l] = "inflight"}) <= 1

\* A live slot, dispatched after an earlier timeout, with requests waiting.
SingleInFlightSlotWitness ==
    /\ processing # NONE
    /\ Len(dialogues) >= 3
    /\ timedout # {}
    /\ Len(waiting) >= 2

\* C2 as stated: at most one issued ledger call is without its completion.
AtMostOneLedgerCallPending == Cardinality(Outstanding) <= 1

\* C2 amended: every issued ledger call without its completion is the slot's
\* or is in the timed-out set; at most one of them has not been timed out.
PendingCallsAreSlotOrTimedOut ==
    /\ \A l \in Outstanding : l = processing \/ l \in timedout
    /\ Cardinality(Outstanding \ timedout) <= 1
    /\ Cardinality(Outstanding) <= 1 + Cardinality(timedout)

\* Two ledger calls pending at once: a timed-out one and the slot's.
PendingCallsWitness ==
    /\ Cardinality(Outstanding) >= 2
    /\ processing \in Outstanding
    /\ timedout \cap Outstanding # {}

\* C3: FIFO with timeout demotion. When a dispatched request times out before
\* any completion for it has arrived and finds the queue w non-empty, the next
\* dispatch is the head of w, and the request is dispatched again only after
\* every request of w has been dispatched since the timeout.
FifoWithTimeoutDemotion ==
    \A l \in DOMAIN demoted :
        demoted[l] # <<>> =>
            /\ l + 1 \in DOMAIN dialogues
            /\ dialogues[l + 1] = Head(demoted[l])
            /\ \A k \in (l + 1)..Len(dialogues) :
                  dialogues[k] = dialogues[l] =>
                      \A i \in DOMAIN demoted[l] :
                          \E j \in (l + 1)..(k - 1) :
                              dialogues[j] = demoted[l][i]

\* R1 timed out with R2 and R3 waiting, and was dispatched again (after them).
FifoWithTimeoutDemotionWitness ==
    \E l \in DOMAIN demoted :
        /\ Len(demoted[l]) >= 2
        /\ \E k \in (l + 1)..Len(dialogues) : dialogues[k] = dialogues[l]

\* C4: idempotent late success. A success completion for a dialogue that is
\* not the slot's and is in the timed-out set removes it from that set and
\* leaves the slot, the elapsed time and the queue as they were, without error.
IdempotentLateSuccess ==
    [][\A d \in Completable :
          (d # processing /\ d \in timedout /\ Finish(d)) =>
              /\ timedout' = timedout \ {d}
              /\ UNCHANGED <<processing, processing_time, waiting>>
              /\ ~raised']_vars

\* The first dialogue timed out and its success arrived late, while the second
\* dispatch of the same request holds the slot (a late failure would have put
\* the request in the queue).
IdempotentLateSuccessWitness ==
    /\ Len(dialogues) = 2
    /\ enqueued = 1
    /\ processing = 2
    /\ fate[1] = "timedout"
    /\ 1 \in completed
    /\ timedout = {}
    /\ waiting = <<>>
    /\ ~raised

\* C5: an unmatched completion is fatal and changes nothing. A completion,
\* success or failure, for a dialogue that is neither the slot's nor in the
\* timed-out set raises ValueError and leaves the queue, the slot, the elapsed
\* time and the timed-out set unchanged (the failure is not re-enqueued).
UnmatchedCompletionIsFatal ==
    [][\A d \in Completable :
          (d # processing /\ d \notin timedout /\ (Finish(d) \/ Failed(d))) =>
              /\ raised'
              /\ UNCHANGED txvars]_vars

\* An unmatched completion was raised while a slot was live and requests waited.
UnmatchedCompletionWitness ==
    /\ raised
    /\ processing # NONE
    /\ Len(waiting) >= 1
    /\ sent = <<>>

\* C6 as stated: a second completion for a timed-out dialogue that an earlier
\* completion already removed from the timed-out set raises no error and
\* changes nothing.
DuplicateLateResolutionIsBenign ==
    [][\A d \in DOMAIN fate :
          (fate[d] = "timedout" /\ d \in completed
              /\ d \notin timedout /\ d # processing
              /\ (Finish(d) \/ Failed(d))) =>
              /\ ~raised'
              /\ UNCHANGED txvars]_vars

\* C7: unbounded retry. A request whose every dispatch so far ended with a
\* failure completion for the slot, however many there were, is in the queue
\* or has been dispatched again and holds the slot; it is never dropped.
DispatchesOf(r) == {l \in DOMAIN dialogues : dialogues[l] = r}

FailedRounds(r) == Cardinality({l \in DispatchesOf(r) : fate[l] = "failed"})

EveryDispatchFailed(r) ==
    /\ FailedRounds(r) >= 1
    /\ \A l \in DispatchesOf(r) : fate[l] = "failed" \/ l = processing

UnboundedRetry ==
    \A r \in Requests :
        EveryDispatchFailed(r) =>
            /\ Occurrences(r) = 1
            /\ FailedRounds(r) + (IF SlotRequest = r THEN 1 ELSE 0)
                  = Cardinality(DispatchesOf(r))

\* A request failed MaxDialogues - 1 times in a row and is dispatched again.
UnboundedRetryWitness ==
    \E r \in Requests :
        /\ EveryDispatchFailed(r)
        /\ FailedRounds(r) = MaxDialogues - 1
        /\ SlotRequest = r

\* C8: backpressure gate. A search tick with searching enabled issues no
\* discovery query when the transaction queue is non-empty and exactly one
\* when it is empty.
SearchQueries(outbox) ==
    Cardinality({i \in DOMAIN outbox : outbox[i] = "SEARCH_SERVICES"})

BackpressureGate ==
    [][(SearchAct /\ is_searching) =>
          SearchQueries(sent') = (IF Len(waiting) > 0 THEN 0 ELSE 1)]_vars

\* A search tick issued its query after the queue had drained.
BackpressureGateWitness ==
    /\ SearchQueries(sent) = 1
    /\ enqueued >= 1
    /\ waiting = <<>>
    /\ processing # NONE

\* C9: the timing scenario, tick interval 2 and max_processing 4.
ScenarioBudget == 2 * tick_interval

\* C9 as stated: after the dispatch, two ticks wait (elapsed 0 and 2) and the
\* next tick (elapsed 4) fires the timeout, requeues the request and leaves
\* the slot empty.
TimeoutScenarioAsStated ==
    [][(Tick /\ max_processing = ScenarioBudget /\ processing # NONE) =>
          /\ processing_time < ScenarioBudget =>
                /\ processing_time' = processing_time + tick_interval
                /\ UNCHANGED <<waiting, processing, timedout, dialogues>>
          /\ processing_time = ScenarioBudget =>
                /\ processing \in timedout'
                /\ processing' = NONE
                /\ waiting' = Append(waiting, dialogues[processing])]_vars

\* C9 amended: the first tick dispatches the request with elapsed 0; the next
\* three ticks only wait (elapsed 0, 2 and 4 become 2, 4 and 6); the tick after
\* them (elapsed 6) fires the timeout and, the request being alone, dispatches
\* it again in the same tick as a new dialogue with elapsed 0.
TimeoutScenarioAmended ==
    [][(Tick /\ max_processing = ScenarioBudget) =>
          /\ (processing = NONE /\ waiting # <<>>) =>
                /\ processing' = Len(dialogues) + 1
                /\ dialogues' = Append(dialogues, Head(waiting))
                /\ processing_time' = 0
          /\ (processing # NONE /\ processing_time <= ScenarioBudget) =>
                /\ processing_time' = processing_time + tick_interval
                /\ UNCHANGED <<waiting, processing, timedout, dialogues>>
                /\ sent' = <<>>
          /\ (processing # NONE /\ processing_time > ScenarioBudget) =>
                /\ processing_time = ScenarioBudget + tick_interval
                /\ timedout' = timedout \cup {processing}
                /\ processing' = Len(dialogues) + 1
                /\ processing_time' = 0
                /\ waiting = <<>> =>
                      /\ dialogues' = Append(dialogues, dialogues[processing])
                      /\ waiting' = <<>>]_vars

\* The scenario's fifth tick: the only request, never completed, timed out and
\* is in the slot again under a new dialogue.
TimeoutScenarioWitness ==
    /\ max_processing = ScenarioBudget
    /\ enqueued = 1
    /\ completed = {}
    /\ dialogues = <<1, 1>>
    /\ timedout = {1}
    /\ processing = 2
    /\ processing_time = 0
    /\ waiting = <<>>

\* C10 as stated: each request occurs at most once in the queue and the slot
\* together.
NoDuplicatedRequests == \A r \in Requests : Occurrences(r) <= 1

\* C11 as stated: once a success completion has arrived for a timed-out
\* dialogue, the request it was issued for does not remain in the queue to be
\* dispatched again.
NoRedispatchAfterLateSuccess ==
    [][\A d \in DOMAIN dialogues :
          (d # processing /\ d \in timedout /\ Finish(d)) =>
              \A i \in DOMAIN waiting' : waiting'[i] # dialogues[d]]_vars

\* C12: no request is lost before its success. Every enqueued request that no
\* success completion for the slot has retired is in the queue or in the slot
\* (a late success for a timed-out dialogue retires nothing, so the requests
\* without any reconciled success are among these).
Retired(r) == \E l \in DispatchesOf(r) : fate[l] = "finished"

NoRequestLostBeforeSuccess ==
    \A r \in 1..enqueued : ~Retired(r) => Occurrences(r) >= 1

\* A request that timed out once and failed once, not retired, still present.
NoRequestLostWitness ==
    \E r \in 1..enqueued :
        /\ ~Retired(r)
        /\ \E l \in DispatchesOf(r) : fate[l] = "timedout"
        /\ \E l \in DispatchesOf(r) : fate[l] = "failed"
        /\ Occurrences(r) >= 1

\* C13: compute-job in-flight guard. At most one job submission is without
\* its reply, strategy.is_in_flight is set while one is, and an invocation of
\* act emits at most one request.
ComputeJobInFlightGuard ==
    /\ job_requests - job_replies <= 1
    /\ job_requests > job_replies => is_in_flight
    /\ Len(sent) <= 1

\* A second job was submitted after the first one's reply, and is in flight.
ComputeJobInFlightWitness ==
    /\ job_requests = 2
    /\ job_replies = 1
    /\ is_in_flight
    /\ sent = <<"C2D_JOB">>

\* C14: waiting tick frame. A tick that finds a slot whose elapsed time is at
\* most max_processing adds exactly one tick interval to the elapsed time and
\* changes nothing else: the slot, its dialogue's request, the queue and the
\* timed-out set are unchanged and nothing is put in the outbox. A label
\* enters the timed-out set only when its elapsed time exceeded the budget.
WaitingTickFrame ==
    [][/\ (Tick /\ processing # NONE /\ processing_time <= max_processing) =>
            /\ processing_time' = processing_time + tick_interval
            /\ UNCHANGED <<waiting, processing, timedout, dialogues>>
            /\ sent' = <<>>
            /\ ~raised'
       /\ \A l \in timedout' \ timedout :
            l = processing /\ processing_time > max_processing]_vars

\* The last waiting tick of a slot: the elapsed time has just passed the
\* budget, with a request waiting and an earlier dialogue timed out.
WaitingTickFrameWitness ==
    /\ max_processing = MaxBudget
    /\ processing # NONE
    /\ processing_time = MaxBudget + tick_interval
    /\ Len(waiting) >= 1
    /\ timedout # {}
    /\ sent = <<>>

\* C15: timeout effect. When a tick finds a slot whose elapsed time exceeds
\* max_processing, _timeout_processing adds the slot's label to the timed-out
\* set, appends its request at the end of the queue (the other requests keep
\* their order), resets the elapsed time to zero, empties the slot and sends
\* nothing. The tick then goes on to dispatch the head of that queue, so at
\* its end the label is in the timed-out set, the slot holds another dialogue,
\* the queue is the tail of the old queue followed by the request, and the only
\* message sent is the new dispatch: no cancellation.
TimeoutEffect ==
    [][(Tick /\ processing # NONE /\ processing_time > max_processing) =>
          LET t == TimeoutProcessing(Self)
              requeued == Append(waiting, dialogues[processing])
          IN  /\ t.timedout = timedout \cup {processing}
              /\ t.waiting = requeued
              /\ t.processing_time = 0
              /\ t.processing = NONE
              /\ t.outbox = <<>>
              /\ t.dialogues = dialogues
              /\ timedout' = timedout \cup {processing}
              /\ waiting' = Tail(requeued)
              /\ processing' \notin {NONE, processing}
              /\ \A i \in DOMAIN sent' : sent'[i] = "GET_RAW_TRANSACTION"]_vars

\* R1 timed out with two requests waiting: the head was dispatched and R1 is
\* behind the other one at the end of the queue.
TimeoutEffectWitness ==
    \E l \in DOMAIN fate :
        /\ fate[l] = "timedout"
        /\ l \in timedout
        /\ processing = l + 1
        /\ processing_time = 0
        /\ Len(waiting) = 2
        /\ waiting[2] = dialogues[l]
        /\ waiting[1] # dialogues[l]
        /\ sent = <<"GET_RAW_TRANSACTION">>

\* C16: dispatch step. A tick that has no slot after its timeout step (the
\* slot was empty, or its elapsed time exceeded the budget and it was timed
\* out in this tick) changes nothing and sends nothing when the queue is then
\* empty; otherwise it removes the head of the queue, creates a fresh ledger
\* dialogue for it, sends exactly one GET_RAW_TRANSACTION and sets the slot to
\* that dialogue with elapsed time zero. A tick that times a slot out always
\* ends with a new slot.
QueueAfterTimeoutStep ==
    IF processing = NONE
    THEN waiting
    ELSE Append(waiting, dialogues[processing])

DispatchStep ==
    [][(Tick /\ (processing = NONE \/ processing_time > max_processing)) =>
          /\ QueueAfterTimeoutStep = <<>> =>
                /\ UNCHANGED <<txvars, dialogues>>
                /\ sent' = <<>>
          /\ QueueAfterTimeoutStep # <<>> =>
                /\ waiting' = Tail(QueueAfterTimeoutStep)
                /\ dialogues' = Append(dialogues, Head(QueueAfterTimeoutStep))
                /\ processing' = Len(dialogues')
                /\ processing' \notin DOMAIN dialogues
                /\ processing_time' = 0
                /\ sent' = <<"GET_RAW_TRANSACTION">>
          /\ processing # NONE =>
                /\ processing' \notin {NONE, processing}
                /\ processing_time' = 0]_vars

\* A dispatch from an empty slot: the previous dialogue finished, the oldest
\* of the waiting requests went to the slot and a newer one still waits.
DispatchStepWitness ==
    /\ Len(dialogues) >= 2
    /\ processing = Len(dialogues)
    /\ fate[processing - 1] = "finished"
    /\ processing_time = 0
    /\ sent = <<"GET_RAW_TRANSACTION">>
    /\ waiting # <<>>
    /\ \A i \in DOMAIN waiting : waiting[i] > dialogues[processing]

\* C17 as stated: a success completion for the slot's dialogue empties the
\* slot, resets the elapsed time, leaves the queue and the timed-out set
\* unchanged, and the retired request is not in the queue afterwards.
MatchingSuccessRetires ==
    [][\A d \in DOMAIN dialogues :
          (d = processing /\ Finish(d)) =>
              /\ processing' = NONE
              /\ processing_time' = 0
              /\ UNCHANGED <<waiting, timedout>>
              /\ ~raised'
              /\ \A i \in DOMAIN waiting' : waiting'[i] # dialogues[d]]_vars

\* C18: failure path. A failure completion for the slot's dialogue or for a
\* dialogue in the timed-out set raises no error, clears the bookkeeping as
\* the success path does (the slot emptied and the elapsed time reset, or the
\* label removed from the timed-out set with the slot and the elapsed time
\* untouched), and appends the dialogue's request at the tail of the queue,
\* behind every request already waiting; nothing is sent.
FailurePath ==
    [][\A d \in DOMAIN dialogues :
          ((d = processing \/ d \in timedout) /\ Failed(d)) =>
              /\ ~raised'
              /\ waiting' = Append(waiting, dialogues[d])
              /\ d = processing =>
                    /\ processing' = NONE
                    /\ processing_time' = 0
                    /\ UNCHANGED timedout
              /\ d # processing =>
                    /\ timedout' = timedout \ {d}
                    /\ UNCHANGED <<processing, processing_time>>
              /\ sent' = <<>>]_vars

\* A late failure of a timed-out dialogue put its request at the tail behind
\* a waiting request, while a later dispatch of the same request holds the
\* slot.
FailurePathWitness ==
    \E l \in DOMAIN fate :
        /\ fate[l] = "timedout"
        /\ l \in completed
        /\ l \notin timedout
        /\ processing # NONE
        /\ SlotRequest = dialogues[l]
        /\ Len(waiting) >= 2
        /\ waiting[Len(waiting)] = dialogues[l]
        /\ waiting[1] # dialogues[l]
        /\ ~raised

\* C19: search start-up gating. With is_ledger_tx, setup sends exactly one
\* GET_BALANCE and leaves the strategy not searching; without it, setup sends
\* nothing and sets the strategy searching. A search tick taken while the
\* strategy is not searching sends nothing and changes no state.
SearchStartupGating ==
    [][/\ (SearchSetup /\ is_ledger_tx) =>
            /\ sent' = <<"GET_BALANCE">>
            /\ ~is_searching'
       /\ (SearchSetup /\ ~is_ledger_tx) =>
            /\ sent' = <<>>
            /\ is_searching'
       /\ (SearchAct /\ ~is_searching) =>
            /\ sent' = <<>>
            /\ ~raised'
            /\ UNCHANGED <<txvars, dialogues, max_processing, enqueued,
                           is_ledger_tx, is_searching, setup_done,
                           completed, fate, demoted, c2dvars>>]_vars

\* After the setup of a strategy that must fund a ledger transaction: the
\* balance check is out and the search has not started.
SearchStartupGatingWitness ==
    /\ setup_done
    /\ is_ledger_tx
    /\ ~is_searching
    /\ sent = <<"GET_BALANCE">>

\* C20: the search loop is read-only on the dispatch state. A search tick,
\* wherever it falls between the dispatch ticks and the completions, leaves
\* the queue, the slot, the elapsed time and the timed-out set unchanged.
SearchIsReadOnly ==
    [][SearchAct => UNCHANGED <<txvars, dialogues>>]_vars

\* A search tick sent its query while a dialogue is in the slot and another
\* one is timed out.
SearchIsReadOnlyWitness ==
    /\ sent = <<"SEARCH_SERVICES">>
    /\ processing # NONE
    /\ timedout # {}
    /\ waiting = <<>>

\* C21 as stated: a search tick issues a discovery query only when the queue
\* is empty and no request is in flight in the slot.
SearchOnlyWithoutOutstandingWork ==
    [][(SearchAct /\ SearchQueries(sent') >= 1) =>
          /\ Len(waiting) = 0
          /\ processing = NONE]_vars

\* C21 amended: a search tick issues a discovery query only when the strategy
\* is searching and the queue is empty; a request in flight in the slot does
\* not hold the query back.
SearchOnlyWithEmptyQueue ==
    [][(SearchAct /\ SearchQueries(sent') >= 1) =>
          /\ is_searching
          /\ Len(waiting) = 0]_vars

\* A query went out while the slot's ledger call, still waiting for its
\* completion, was the only transaction work left.
SearchOnlyWithEmptyQueueWitness ==
    /\ sent = <<"SEARCH_SERVICES">>
    /\ waiting = <<>>
    /\ processing # NONE
    /\ processing_time > 0
    /\ Outstanding = {processing}

\* C22: compute-job hand-off. An invocation of act changes nothing and sends
\* nothing when is_in_flight is set or is_c2d_active is clear. Otherwise, with
\* data purchased and the job not completed, it sends exactly one C2D_JOB and
\* sets is_in_flight, leaving the other flags; with the job completed, it
\* sends nothing and clears is_c2d_active and is_processing, which makes the
\* next invocation one of those that change nothing.
ComputeJobHandOff ==
    [][C2DTick =>
          /\ (is_in_flight \/ ~is_c2d_active) =>
                /\ UNCHANGED c2dvars
                /\ sent' = <<>>
          /\ (~is_in_flight /\ is_c2d_active
                /\ purchased_data # NONE /\ ~has_completed_c2d_job) =>
                /\ sent' = <<"C2D_JOB">>
                /\ job_requests' = job_requests + 1
                /\ is_in_flight'
                /\ UNCHANGED <<is_c2d_active, is_processing, purchased_data,
                               has_completed_c2d_job, job_replies>>
          /\ (~is_in_flight /\ is_c2d_active /\ has_completed_c2d_job) =>
                /\ sent' = <<>>
                /\ ~is_c2d_active'
                /\ ~is_processing'
                /\ UNCHANGED <<is_in_flight, purchased_data,
                               has_completed_c2d_job, job_requests,
                               job_replies>>]_vars

\* The first job submission has just been sent and is in flight.
ComputeJobHandOffWitness ==
    /\ sent = <<"C2D_JOB">>
    /\ job_requests = 1
    /\ job_replies = 0
    /\ is_in_flight
    /\ is_c2d_active
    /\ purchased_data # NONE
    /\ ~has_completed_c2d_job

\* C23: the unmatched-completion error is unreachable under the ledger's
\* contract. With exactly one completion per created dialogue and none for any
\* other, no handler raises ValueError: every dialogue whose completion is
\* still to come is the slot's or is in the timed-out set, and the slot's
\* label is never in the timed-out set.
NoUnmatchedCompletionUnderContract ==
    /\ ~raised
    /\ \A l \in Outstanding : l = processing \/ l \in timedout
    /\ processing # NONE => processing \notin timedout

\* Every dialogue created got its one completion, among them a late one for a
\* timed-out dialogue and a failure for the slot, and nothing was raised.
NoUnmatchedCompletionWitness ==
    /\ Len(dialogues) >= 3
    /\ completed = 1..Len(dialogues)
    /\ \E l \in DOMAIN fate : fate[l] = "timedout"
    /\ \E l \in DOMAIN fate : fate[l] = "failed"
    /\ timedout = {}
    /\ processing = NONE
    /\ ~raised

\* C24: elapsed-time invariant. The elapsed processing time is zero whenever
\* the slot is empty, is a non-negative multiple of the tick interval, and
\* never exceeds max_processing plus one tick interval.
ElapsedTimeInvariant ==
    /\ processing = NONE => processing_time = 0
    /\ processing_time >= 0
    /\ processing_time % tick_interval = 0
    /\ processing_time <= max_processing + tick_interval

\* A slot dispatched after an earlier one, at the largest elapsed time its
\* budget allows: one tick interval above max_processing.
ElapsedTimeWitness ==
    /\ processing # NONE
    /\ Len(dialogues) >= 2
    /\ max_processing = MaxBudget
    /\ processing_time = max_processing + tick_interval
    /\ processing_time > 0

\* C25: dispatch progress. While the transaction behaviour keeps being ticked,
\* every request in the queue is eventually dispatched under a dialogue newer
\* than all those that existed while it waited, whether or not the ledger ever
\* completes anything: a stalled slot is freed by the timeout. (A request at
\* position i of the queue is dispatched by the i-th dispatch from then on;
\* the statement is about the requests for which the model has that many
\* dialogues left.)
WaitsWithRoom(r, n) ==
    /\ Len(dialogues) = n
    /\ \E i \in DOMAIN waiting : waiting[i] = r /\ n + i <= MaxDialogues

DispatchProgress ==
    \A r \in Requests : \A n \in 0..MaxDialogues :
        WaitsWithRoom(r, n) ~> (\E l \in DispatchesOf(r) : l > n)

\* With no completion at all, every request was dispatched: each dialogue
\* before the slot's was timed out.
DispatchProgressWitness ==
    /\ completed = {}
    /\ enqueued = MaxRequests
    /\ Len(dialogues) = MaxDialogues
    /\ processing = MaxDialogues
    /\ \A l \in 1..(MaxDialogues - 1) : fate[l] = "timedout"
    /\ \A r \in Requests : DispatchesOf(r) # {}

=============================================================================
